---- MODULE Spec2Model ----
(***************************************************************************)
(* A model of bevy_sprite's TextureAtlasBuilder                            *)
(* (crates/bevy_sprite/src/texture_atlas_builder.rs).                      *)
(*                                                                         *)
(* The builder's fields (settings, textures_to_place) and the locals of    *)
(* build() are the state.  build() is split at its loop head so that the   *)
(* size search is observable one packing attempt at a time:                *)
(*   build_begin   lines 205-251  (bounds, format unification, rects)      *)
(*   build_attempt lines 253-309  (one iteration of the while loop)        *)
(*   build_finish  lines 311-342  (layout, sources, blit, return)          *)
(*                                                                         *)
(* The u32 values of the model are small and every intermediate value      *)
(* stays far below 2^32, so + and * are exact; saturating_sub saturates.   *)
(* A panic inside build() (a slice out of range in the blit) is the result *)
(* kind "Panic".                                                           *)
(* Vector indices are 1-based here (Rust index k is k+1), except the       *)
(* indices stored in texture_ids, which keep the Rust value.               *)
(*                                                                         *)
(* Three specifications:                                                   *)
(*   Spec       a builder configured by its setters, filled and built;     *)
(*   SpecTwice  a builder built repeatedly, through build() and through    *)
(*              the deprecated finish(), each outcome kept for comparison; *)
(*   SpecScope  TaskPool::scope of bevy_tasks' single-threaded task pool   *)
(*              (crates/bevy_tasks/src/single_threaded_task_pool.rs).      *)
(***************************************************************************)
EXTENDS Integers, Sequences, FiniteSets, TLC

\* ---- bounds of the model ------------------------------------------------
MaxSize == 3         \* a component of max_size is 0 or MaxSize
MaxMinSize == 1      \* a component of min_size is 0 or MaxMinSize
MaxMargin == 1       \* a component of margin is 0 or MaxMargin
MaxPadding == 1      \* a component of padding is 0 or MaxPadding
MaxImages == 2       \* add_texture is called at most MaxImages times
MaxAttempts == 5     \* the attempts log stops growing at this length

\* ---- values -------------------------------------------------------------
UVec2(x, y) == [x |-> x, y |-> y]

UVec2s(n) == {UVec2(x, y) : x \in {0, n}, y \in {0, n}}

\* The values the caller passes to the setters.
MinSizes == UVec2s(MaxMinSize)

MaxSizes == UVec2s(MaxSize)

Margins == UVec2s(MaxMargin)

Paddings == UVec2s(MaxPadding)

\* The formats convert_format may force.
ConvertFormats == {"R8Unorm", "Rg8Unorm"}

\* What the caller passes to add_texture: an optional asset id, and an image
\* of some extent and format.
Textures ==
    {[image_id |-> "None", width |-> 1, height |-> 1, format |-> "R8Unorm"],
     [image_id |-> "id1", width |-> 2, height |-> 1, format |-> "R8Unorm"],
     [image_id |-> "id2", width |-> 1, height |-> 2, format |-> "R16Uint"]}

\* TextureFormat::pixel_size(): bytes per pixel.
pixel_size(format) ==
    CASE format = "R8Unorm" -> 1
      [] format = "Rg8Unorm" -> 2
      [] format = "R16Uint" -> 2
      [] OTHER -> 4

\* One byte of a pixel buffer.  Source bytes are symbolic: byte idx of the
\* buffer of the image registered at position img, in format fmt.
Byte(img, fmt, idx) == <<img, fmt, idx>>

ZeroByte == Byte(0, "zero", 0)

\* An Image: its extent, its format, and its data (a byte sequence).
Image(width, height, format, data) ==
    [width |-> width, height |-> height, format |-> format, data |-> data]

\* Image::default(): a 1x1 white Rgba8UnormSrgb pixel.
DefaultImage ==
    Image(1, 1, "Rgba8UnormSrgb", [b \in 1..4 |-> Byte(0, "white", 0)])

\* The image a caller passes to the call number img of add_texture.
SourceImage(img, width, height, format) ==
    Image(width, height, format,
          [b \in 1..(width * height * pixel_size(format)) |-> Byte(img, format, b - 1)])

\* Image::convert(new_format): Some(image of the same extent in new_format),
\* or None when the source or the target format is not one the conversion
\* supports.
ConvertSupported(format, new_format) ==
    /\ format \in {"R8Unorm", "Rg8Unorm", "Rgba8UnormSrgb"}
    /\ new_format \in {"R8Unorm", "Rg8Unorm", "Rgba8UnormSrgb"}

convert(texture, img, new_format) ==
    Image(texture.width, texture.height, new_format,
          [b \in 1..(texture.width * texture.height * pixel_size(new_format))
              |-> Byte(img, new_format, b - 1)])

saturating_sub(a, b) == IF a >= b THEN a - b ELSE 0

Min(a, b) == IF a <= b THEN a ELSE b

Max(a, b) == IF a >= b THEN a ELSE b

\* ---- state --------------------------------------------------------------
VARIABLES
    settings,           \* self.settings
    textures_to_place,  \* self.textures_to_place
    pc,                 \* where the caller / build() stands
    max_size,           \* build(): max_size (max_width, max_height)
    current_width,      \* build(): current_width
    current_height,     \* build(): current_height
    unified_format,     \* build(): unified_format
    rect_placements,    \* build(): rect_placements, None or Some(placement)
    atlas_texture,      \* build(): atlas_texture; after Ok, the image returned
    attempts,           \* the bin sizes handed to pack_rects so far in this build()
    result,             \* what build() returned
    called,             \* the entry point the caller used: "build" or "finish"
    last_build,         \* None, or Some(what the previous call returned from the
                        \* builder as it is configured now), kept by the caller
    scope_pc,           \* where TaskPool::scope_with_executor stands
    results,            \* scope.results: the result cells, in push order
    cells,              \* the Rc<RefCell<Option<T>>> cells, by cell number
    tasks,              \* the tasks spawned on the scope's executor, in spawn order
    returned            \* the Vec<T> that scope() returned

vars == <<settings, textures_to_place, pc, max_size, current_width, current_height,
          unified_format, rect_placements, atlas_texture, attempts, result,
          called, last_build, scope_pc, results, cells, tasks, returned>>

\* The state of the task pool's scope (single_threaded_task_pool.rs); the
\* builder's operations leave it alone, and the scope's leave the builder alone.
pool == <<scope_pc, results, cells, tasks, returned>>

builder == <<settings, textures_to_place, pc, max_size, current_width, current_height,
             unified_format, rect_placements, atlas_texture, attempts, result,
             called, last_build>>

locals == <<max_size, current_width, current_height, unified_format,
            rect_placements, atlas_texture, attempts, called>>

\* Option: None and Some(value).
None == [some |-> FALSE]

Some(value) == [some |-> TRUE, value |-> value]

NoResult == [kind |-> "None"]

Err(e) == [kind |-> e]

SettingsValues ==
    [min_size : MinSizes, max_size : MaxSizes, margin : Margins, padding : Paddings,
     convert_format : {"None"} \cup ConvertFormats]

\* The whole-settings values handed to settings(): the shape of the settings
\* of the crate's tests (square, padding and margin set, format forced), and
\* an all-zero one.
SettingsPresets ==
    {[min_size |-> UVec2(1, 1), max_size |-> UVec2(MaxSize, MaxSize),
      margin |-> UVec2(MaxMargin, MaxMargin), padding |-> UVec2(MaxPadding, MaxPadding),
      convert_format |-> "R8Unorm"],
     [min_size |-> UVec2(0, 0), max_size |-> UVec2(0, 0),
      margin |-> UVec2(0, 0), padding |-> UVec2(0, 0),
      convert_format |-> "None"]}

\* ---- faulty variants, used to show that the properties below depend on the
\* ---- definitions they are checked against ---------------------------------
\* Format unification that never compares the images' formats.
UnifiedFormat_NoComparison(s, textures) ==
    IF s.convert_format # "None" THEN s.convert_format
    ELSE IF textures = <<>> THEN "WrongFormat"
    ELSE textures[1].texture.format

\* Format unification that compares the images' formats even when a format
\* is forced.
UnifiedFormat_AlwaysCompares(s, textures) ==
    IF \E k \in 2..Len(textures) :
           textures[k].texture.format # textures[1].texture.format
       THEN "WrongFormat"
    ELSE IF s.convert_format # "None" THEN s.convert_format
    ELSE IF textures = <<>> THEN "WrongFormat"
    ELSE textures[1].texture.format

\* A largest bin that forgets the margin.
MaxBinSize_IgnoresMargin(s) ==
    [x |-> s.max_size.x + s.padding.x, y |-> s.max_size.y + s.padding.y]

\* A largest bin that forgets the padding.
MaxBinSize_IgnoresPadding(s) ==
    [x |-> IF s.max_size.x >= 2 * s.margin.x THEN s.max_size.x - 2 * s.margin.x ELSE 0,
     y |-> IF s.max_size.y >= 2 * s.margin.y THEN s.max_size.y - 2 * s.margin.y ELSE 0]

\* A lookup by position from the end instead of by rectangle id.
PackedLocation_Reversed(placements, index) == placements[Len(placements) - index + 1]

\* A rectangle corner that keeps the padding.
RectMax_KeepsPadding(s, packed_location) ==
    [x |-> s.margin.x + packed_location.x + packed_location.width,
     y |-> s.margin.y + packed_location.y + packed_location.height]

\* A lookup that ignores the rectangle id.
PackedLocation_First(placements, index) == placements[1]

\* A map insertion that stores the index one too high.
Insert_OffByOne(map, key, value) ==
    [k \in DOMAIN map \cup {key} |-> IF k = key THEN value + 1 ELSE map[k]]

\* Format unification that accepts an empty builder.
UnifiedFormat_EmptyAllowed(s, textures) ==
    IF s.convert_format # "None" THEN s.convert_format
    ELSE IF textures = <<>> THEN "Rgba8UnormSrgb"
    ELSE IF \E k \in 2..Len(textures) :
                textures[k].texture.format # textures[1].texture.format
         THEN "WrongFormat"
         ELSE textures[1].texture.format


\* ---- format unification (build, lines 216-238) --------------------------
\* "WrongFormat" stands for the early return Err(WrongFormat).
UnifiedFormat(s, textures) ==
    IF s.convert_format # "None" THEN s.convert_format
    ELSE IF textures = <<>> THEN "WrongFormat"
    ELSE IF \E k \in 2..Len(textures) :
                textures[k].texture.format # textures[1].texture.format
         THEN "WrongFormat"
         ELSE textures[1].texture.format

\* ---- rectangles handed to the packer (build, lines 240-251) -------------
RectToInsert(texture, padding) ==
    [width |-> texture.width + padding.x, height |-> texture.height + padding.y]

RectsToPlace(textures, padding) ==
    [k \in 1..Len(textures) |-> RectToInsert(textures[k].texture, padding)]

\* ---- rectangle_pack::pack_rects (called at lines 262-267) ---------------
\* The packer is an external crate; it is modelled by its contract: every
\* rectangle keeps its size, lies inside the single bin, no two overlap, and
\* NotEnoughBinSpace is reported exactly when no such placement exists.  The
\* placement is keyed by the rectangle's id (packed_locations() is a map).
Disjoint(a, b) ==
    \/ a.x + a.width <= b.x
    \/ b.x + b.width <= a.x
    \/ a.y + a.height <= b.y
    \/ b.y + b.height <= a.y

PackedLocations(rect, bin_width, bin_height) ==
    {[x |-> x, y |-> y, width |-> rect.width, height |-> rect.height] :
        x \in 0..(bin_width - rect.width), y \in 0..(bin_height - rect.height)}

\* The placements of the first k rectangles, each extended by every location
\* of rectangle k that is free.
pack_rects(rects, bin_width, bin_height) ==
    LET placed[k \in 0..Len(rects)] ==
            IF k = 0 THEN {<<>>}
            ELSE UNION {{Append(p, location) :
                            location \in {l \in PackedLocations(rects[k], bin_width, bin_height) :
                                             \A j \in 1..(k - 1) : Disjoint(p[j], l)}} :
                        p \in placed[k - 1]}
    IN  placed[Len(rects)]

\* ---- the size search (build, lines 253-309) -----------------------------
\* max_size of line 205: the largest bin the search may try.
MaxBinSize(s) ==
    UVec2(saturating_sub(s.max_size.x + s.padding.x, 2 * s.margin.x),
          saturating_sub(s.max_size.y + s.padding.y, 2 * s.margin.y))

\* Lines 271-282: the atlas size once packing succeeded in the current bin.
FinalWidth(s, textures, width) ==
    (IF textures # <<>>
        THEN Max(saturating_sub(width, s.padding.x), s.min_size.x)
        ELSE width)
    + 2 * s.margin.x

FinalHeight(s, textures, height) ==
    (IF textures # <<>>
        THEN Max(saturating_sub(height, s.padding.x), s.min_size.y)
        ELSE height)
    + 2 * s.margin.x

\* Lines 283-296: Image::new with a zero-filled buffer.
NewAtlas(width, height, format) ==
    Image(width, height, format,
          [b \in 1..(pixel_size(format) * (width * height)) |-> ZeroByte])

\* ---- the blit (lines 98-152) --------------------------------------------
\* copy_texture_to_atlas: the row loop of lines 111-118.  Row texture_y copies
\* texture.data[texture_begin..texture_end] to atlas.data[begin..end]; a slice
\* that runs past the end of either buffer panics.  writes[n] maps the atlas
\* byte offsets written by the first n rows to the bytes written there (a
\* later row overwrites an earlier one).
copy_texture_to_atlas(atlas, texture, packed_location, padding) ==
    LET rect_width == packed_location.width - padding.x
        rect_height == packed_location.height - padding.y
        rect_x == packed_location.x
        rect_y == packed_location.y
        atlas_width == atlas.width
        format_size == pixel_size(atlas.format)
        begin(texture_y) == ((rect_y + texture_y) * atlas_width + rect_x) * format_size
        end(texture_y) == begin(texture_y) + rect_width * format_size
        texture_begin(texture_y) == texture_y * rect_width * format_size
        texture_end(texture_y) == texture_begin(texture_y) + rect_width * format_size
        panics == \E texture_y \in 0..(rect_height - 1) :
                      \/ end(texture_y) > Len(atlas.data)
                      \/ texture_end(texture_y) > Len(texture.data)
        row(texture_y) ==
            [b \in begin(texture_y)..(end(texture_y) - 1) |->
                texture.data[texture_begin(texture_y) + (b - begin(texture_y)) + 1]]
        writes[n \in 0..rect_height] ==
            IF n = 0 THEN <<>> ELSE row(n - 1) @@ writes[n - 1]
        written == writes[rect_height]
    IN  [panicked |-> panics,
         image |-> IF panics THEN atlas
                   ELSE [atlas EXCEPT !.data =
                           [b \in 1..Len(atlas.data) |->
                              IF (b - 1) \in DOMAIN written THEN written[b - 1]
                                                           ELSE atlas.data[b]]]]

\* A faulty variant: an image that cannot be converted is copied as it is.
copy_converted_texture_CopiesAnyway(s, atlas, texture, img, packed_location, convert_format) ==
    IF convert_format = texture.format \/ ~ConvertSupported(texture.format, convert_format)
       THEN copy_texture_to_atlas(atlas, texture, packed_location, s.padding)
       ELSE copy_texture_to_atlas(atlas, convert(texture, img, convert_format),
                                  packed_location, s.padding)

\* copy_converted_texture (lines 121-152); img is the position of the image.
copy_converted_texture(s, atlas, texture, img, packed_location, convert_format) ==
    IF convert_format = texture.format
       THEN copy_texture_to_atlas(atlas, texture, packed_location, s.padding)
    ELSE IF ConvertSupported(texture.format, convert_format)
       THEN copy_texture_to_atlas(atlas, convert(texture, img, convert_format),
                                  packed_location, s.padding)
    ELSE [panicked |-> FALSE, image |-> atlas]

\* ---- layout rectangles (build, lines 313-332) ---------------------------
\* packed_locations().get(&index)
PackedLocation(placements, index) == placements[index]

RectMin(s, packed_location) ==
    UVec2(s.margin.x + packed_location.x, s.margin.y + packed_location.y)

RectMax(s, packed_location) ==
    UVec2(s.margin.x + packed_location.x + packed_location.width - s.padding.x,
          s.margin.y + packed_location.y + packed_location.height - s.padding.y)

URect(s, packed_location) ==
    [min |-> RectMin(s, packed_location), max |-> RectMax(s, packed_location)]

\* HashMap::insert
Insert(map, key, value) ==
    [k \in DOMAIN map \cup {key} |-> IF k = key THEN value ELSE map[k]]

\* The for loop of lines 316-332, folded over the images in insertion order.
RECURSIVE PlaceTextures(_, _, _, _, _)
PlaceTextures(s, textures, placements, format, acc) ==
    LET index == Len(acc.texture_rects) + 1
    IN  IF index > Len(textures) \/ acc.panicked THEN acc
        ELSE LET image_id == textures[index].image_id
                 texture == textures[index].texture
                 packed_location == PackedLocation(placements, index)
                 copied == copy_converted_texture(s, acc.atlas_texture, texture, index,
                                                  packed_location, format)
             IN  PlaceTextures(s, textures, placements, format,
                    [texture_rects |-> Append(acc.texture_rects, URect(s, packed_location)),
                     texture_ids |-> IF image_id # "None"
                                        THEN Insert(acc.texture_ids, image_id, index - 1)
                                        ELSE acc.texture_ids,
                     atlas_texture |-> copied.image,
                     panicked |-> copied.panicked])

\* Lines 334-341: the value build() returns.  Its third component is
\* atlas_texture itself, which is moved into the result.
Ok(placed) ==
    [kind |-> "Ok",
     layout |-> [size |-> UVec2(placed.atlas_texture.width, placed.atlas_texture.height),
                 textures |-> placed.texture_rects],
     sources |-> [texture_ids |-> placed.texture_ids]]

\* ---- actions ------------------------------------------------------------
\* The setters and add_texture take &mut self: they run between build() calls.
min_size(size) ==
    /\ pc = "idle"
    /\ settings' = [settings EXCEPT !.min_size = size]
    /\ last_build' = None
    /\ UNCHANGED <<textures_to_place, pc, locals, result>>
    /\ UNCHANGED pool

set_max_size(size) ==
    /\ pc = "idle"
    /\ settings' = [settings EXCEPT !.max_size = size]
    /\ last_build' = None
    /\ UNCHANGED <<textures_to_place, pc, locals, result>>
    /\ UNCHANGED pool

margin(m) ==
    /\ pc = "idle"
    /\ settings' = [settings EXCEPT !.margin = m]
    /\ last_build' = None
    /\ UNCHANGED <<textures_to_place, pc, locals, result>>
    /\ UNCHANGED pool

\* A faulty variant: a padding setter that sets the margin as well.
padding_AlsoSetsMargin(p) ==
    /\ pc = "idle"
    /\ settings' = [settings EXCEPT !.padding = p, !.margin = p]
    /\ last_build' = None
    /\ UNCHANGED <<textures_to_place, pc, locals, result>>
    /\ UNCHANGED pool

padding(p) ==
    /\ pc = "idle"
    /\ settings' = [settings EXCEPT !.padding = p]
    /\ last_build' = None
    /\ UNCHANGED <<textures_to_place, pc, locals, result>>
    /\ UNCHANGED pool

convert_format(format) ==
    /\ pc = "idle"
    /\ settings' = [settings EXCEPT !.convert_format = format]
    /\ last_build' = None
    /\ UNCHANGED <<textures_to_place, pc, locals, result>>
    /\ UNCHANGED pool

set_settings(s) ==
    /\ pc = "idle"
    /\ settings' = s
    /\ last_build' = None
    /\ UNCHANGED <<textures_to_place, pc, locals, result>>
    /\ UNCHANGED pool

add_texture(image_id, width, height, format) ==
    /\ pc = "idle"
    /\ Len(textures_to_place) < MaxImages
    /\ textures_to_place' =
          Append(textures_to_place,
                 [image_id |-> image_id,
                  texture |-> SourceImage(Len(textures_to_place) + 1, width, height, format)])
    /\ last_build' = None
    /\ UNCHANGED <<settings, pc, locals, result>>
    /\ UNCHANGED pool

\* A faulty variant: a finish() that consumes the registered images.
finish_Drains ==
    /\ pc = "idle"
    /\ pc' = "finish"
    /\ textures_to_place' = <<>>
    /\ UNCHANGED <<settings, locals, result, last_build>>
    /\ UNCHANGED pool

\* A faulty variant: a build() that takes the forced format out of the
\* settings (Option::take) instead of reading it.
build_begin_TakesFormat ==
    /\ pc \in {"idle", "finish"}
    /\ called' = IF pc = "finish" THEN "finish" ELSE "build"
    /\ max_size' = MaxBinSize(settings)
    /\ current_width' = settings.min_size.x
    /\ current_height' = settings.min_size.y
    /\ rect_placements' = None
    /\ atlas_texture' = DefaultImage
    /\ attempts' = <<>>
    /\ LET format == UnifiedFormat(settings, textures_to_place)
       IN  IF format = "WrongFormat"
              THEN /\ unified_format' = "None"
                   /\ result' = Err("WrongFormat")
                   /\ pc' = "done"
              ELSE /\ unified_format' = format
                   /\ result' = NoResult
                   /\ pc' = "loop"
    /\ settings' = [settings EXCEPT !.convert_format = "None"]
    /\ UNCHANGED <<textures_to_place, last_build>>
    /\ UNCHANGED pool

\* finish(), lines 154-162: the deprecated alias, whose body is self.build().
finish ==
    /\ pc = "idle"
    /\ pc' = "finish"
    /\ UNCHANGED <<settings, textures_to_place, locals, result, last_build>>
    /\ UNCHANGED pool

\* build(), lines 205-251, entered by the caller or from finish().
build_begin ==
    /\ pc \in {"idle", "finish"}
    /\ called' = IF pc = "finish" THEN "finish" ELSE "build"
    /\ max_size' = MaxBinSize(settings)
    /\ current_width' = settings.min_size.x
    /\ current_height' = settings.min_size.y
    /\ rect_placements' = None
    /\ atlas_texture' = DefaultImage
    /\ attempts' = <<>>
    /\ LET format == UnifiedFormat(settings, textures_to_place)
       IN  IF format = "WrongFormat"
              THEN /\ unified_format' = "None"
                   /\ result' = Err("WrongFormat")
                   /\ pc' = "done"
              ELSE /\ unified_format' = format
                   /\ result' = NoResult
                   /\ pc' = "loop"
    /\ UNCHANGED <<settings, textures_to_place, last_build>>
    /\ UNCHANGED pool

\* The packer is deterministic: handed the rectangles and the bin of the
\* previous call again, it returns the placement it returned then.
SamePacking(p) ==
    (last_build # None /\ last_build.value.rect_placements # None)
        => p = last_build.value.rect_placements.value

Log(size) == IF Len(attempts) < MaxAttempts THEN Append(attempts, size) ELSE attempts

\* One iteration of the while loop of lines 253-309.
build_attempt ==
    /\ pc = "loop"
    /\ IF current_width > max_size.x \/ current_height > max_size.y
          THEN /\ pc' = "after_loop"
               /\ UNCHANGED <<current_width, current_height, rect_placements,
                              atlas_texture, attempts>>
          ELSE LET last_attempt == current_height = max_size.y /\ current_width = max_size.x
                   placements == pack_rects(RectsToPlace(textures_to_place, settings.padding),
                                            current_width, current_height)
               IN  /\ attempts' = Log(UVec2(current_width, current_height))
                   /\ IF placements # {}
                         THEN /\ \E p \in placements :
                                    /\ SamePacking(p)
                                    /\ rect_placements' = Some(p)
                              /\ current_width' =
                                   FinalWidth(settings, textures_to_place, current_width)
                              /\ current_height' =
                                   FinalHeight(settings, textures_to_place, current_height)
                              /\ atlas_texture' =
                                   NewAtlas(current_width', current_height', unified_format)
                              /\ pc' = "after_loop"
                         ELSE /\ rect_placements' = None
                              /\ current_height' = Min(current_height * 2, max_size.y)
                              /\ current_width' = Min(current_width * 2, max_size.x)
                              /\ UNCHANGED atlas_texture
                              /\ pc' = IF last_attempt THEN "after_loop" ELSE "loop"
    /\ UNCHANGED <<settings, textures_to_place, max_size, unified_format, result,
                   called, last_build>>
    /\ UNCHANGED pool

\* build(), lines 311-342.
build_finish ==
    /\ pc = "after_loop"
    /\ pc' = "done"
    /\ IF rect_placements = None
          THEN /\ result' = Err("NotEnoughSpace")
               /\ UNCHANGED atlas_texture
          ELSE LET placed == PlaceTextures(settings, textures_to_place,
                                           rect_placements.value, unified_format,
                                           [texture_rects |-> <<>>,
                                            texture_ids |-> <<>>,
                                            atlas_texture |-> atlas_texture,
                                            panicked |-> FALSE])
               IN  /\ result' = IF placed.panicked THEN Err("Panic") ELSE Ok(placed)
                   /\ atlas_texture' = placed.atlas_texture
    /\ UNCHANGED <<settings, textures_to_place, max_size, current_width, current_height,
                   unified_format, rect_placements, attempts, called, last_build>>
    /\ UNCHANGED pool

\* build() has returned (line 311 or 334-341, or a panic unwound it): the
\* caller takes the result, the locals of build() are gone, and the builder
\* can be configured and built again.
build_return ==
    /\ pc = "done"
    /\ pc' = "idle"
    /\ max_size' = UVec2(0, 0)
    /\ current_width' = 0
    /\ current_height' = 0
    /\ unified_format' = "None"
    /\ rect_placements' = None
    /\ atlas_texture' = DefaultImage
    /\ attempts' = <<>>
    /\ result' = NoResult
    /\ called' = "none"
    /\ last_build' = None
    /\ UNCHANGED <<settings, textures_to_place>>
    /\ UNCHANGED pool

\* build() has returned, as above, and the caller keeps what it returned to
\* compare it with what the next call returns.
build_return_kept ==
    /\ pc = "done"
    /\ pc' = "idle"
    /\ max_size' = UVec2(0, 0)
    /\ current_width' = 0
    /\ current_height' = 0
    /\ unified_format' = "None"
    /\ rect_placements' = None
    /\ atlas_texture' = DefaultImage
    /\ attempts' = <<>>
    /\ result' = NoResult
    /\ called' = "none"
    /\ last_build' = Some([called |-> called, settings |-> settings,
                           textures_to_place |-> textures_to_place,
                           rect_placements |-> rect_placements,
                           result |-> result, atlas_texture |-> atlas_texture])
    /\ UNCHANGED <<settings, textures_to_place>>
    /\ UNCHANGED pool

Init ==
    /\ settings \in SettingsValues
    /\ textures_to_place = <<>>
    /\ pc = "idle"
    /\ max_size = UVec2(0, 0)
    /\ current_width = 0
    /\ current_height = 0
    /\ unified_format = "None"
    /\ rect_placements = None
    /\ atlas_texture = DefaultImage
    /\ attempts = <<>>
    /\ result = NoResult
    /\ called = "none"
    /\ last_build = None
    /\ scope_pc = "idle"
    /\ results = <<>>
    /\ cells = <<>>
    /\ tasks = <<>>
    /\ returned = <<>>

Next ==
    \/ \E size \in MinSizes : min_size(size)
    \/ \E size \in MaxSizes : set_max_size(size)
    \/ \E m \in Margins : margin(m)
    \/ \E p \in Paddings : padding(p)
    \/ \E format \in {"None"} \cup ConvertFormats : convert_format(format)
    \/ \E s \in SettingsPresets : set_settings(s)
    \/ \E t \in Textures : add_texture(t.image_id, t.width, t.height, t.format)
    \/ build_begin
    \/ build_attempt
    \/ build_finish
    \/ build_return

Spec == Init /\ [][Next]_vars

\* ---- the same builder built twice ----------------------------------------
\* A builder configured once with square settings (the shape of the settings
\* of the crate's tests) and a max_size just above the largest min_size,
\* filled by add_texture, and built again and again through build() or
\* finish(), the caller keeping each outcome.
TwiceSettings ==
    {[min_size |-> UVec2(min, min), max_size |-> UVec2(MaxMinSize + 1, MaxMinSize + 1),
      margin |-> UVec2(m, m), padding |-> UVec2(p, p), convert_format |-> format] :
        min \in {0, MaxMinSize}, m \in {0, MaxMargin}, p \in {0, MaxPadding},
        format \in {"None"} \cup ConvertFormats}

InitTwice ==
    /\ settings \in TwiceSettings
    /\ textures_to_place = <<>>
    /\ pc = "idle"
    /\ max_size = UVec2(0, 0)
    /\ current_width = 0
    /\ current_height = 0
    /\ unified_format = "None"
    /\ rect_placements = None
    /\ atlas_texture = DefaultImage
    /\ attempts = <<>>
    /\ result = NoResult
    /\ called = "none"
    /\ last_build = None
    /\ scope_pc = "idle"
    /\ results = <<>>
    /\ cells = <<>>
    /\ tasks = <<>>
    /\ returned = <<>>

NextTwice ==
    \/ \E t \in Textures : add_texture(t.image_id, t.width, t.height, t.format)
    \/ finish
    \/ build_begin
    \/ build_attempt
    \/ build_finish
    \/ build_return_kept

SpecTwice == InitTwice /\ [][NextTwice]_vars

\* ---- TaskPool::scope (bevy_tasks/src/single_threaded_task_pool.rs) ---------
\* scope(f) is scope_with_executor(false, None, f) (line 89): it makes a
\* LocalExecutor and the results vector, calls f with the Scope, ticks the
\* executor until try_tick() says false, and takes every result (lines
\* 116-148).  A spawned future is one of
\*   "ready"    completes when first polled;
\*   "yield"    wakes itself and returns Pending once, then completes;
\*   "pending"  returns Pending once and completes when polled again, after
\*              something outside the executor (a timer, a channel, another
\*              thread) has woken it;
\*   "spawn"    spawns a ready future on the scope, then completes.
MaxFutures == 3      \* at most MaxFutures futures are spawned on one scope

Outputs == {"a", "b"}

Futures == [kind : {"ready", "yield", "pending", "spawn"}, output : Outputs]

\* A faulty variant: the result cell is put in front of the vector.
SpawnOnScope_PushFront(p, f) ==
    LET cell == Len(p.cells) + 1
    IN  [results |-> <<cell>> \o p.results,
         cells |-> Append(p.cells, None),
         tasks |-> Append(p.tasks, [fut |-> f, cell |-> cell,
                                    state |-> "scheduled", polls |-> 0, order |-> 0])]

\* spawn_on_scope (lines 246-254) on the pool state p: a new cell holding
\* None is pushed on results, and the wrapper that awaits f and fills the cell
\* is spawned on the executor, detached.
SpawnOnScope(p, f) ==
    LET cell == Len(p.cells) + 1
    IN  [results |-> Append(p.results, cell),
         cells |-> Append(p.cells, None),
         tasks |-> Append(p.tasks, [fut |-> f, cell |-> cell,
                                    state |-> "scheduled", polls |-> 0, order |-> 0])]

\* Lines 250-251: the wrapped future completed; the wrapper stores its output.
\* order notes the how-many-th task to finish this one is.
Complete(p, i) ==
    [p EXCEPT !.cells[p.tasks[i].cell] = Some(p.tasks[i].fut.output),
              !.tasks[i].state = "finished",
              !.tasks[i].order =
                  1 + Cardinality({j \in 1..Len(p.tasks) : p.tasks[j].state = "finished"})]

\* The poll returned Pending after waking itself: the task is scheduled again.
Yield(p, i) == [p EXCEPT !.tasks[i].polls = 1]

\* The poll returned Pending: the task waits for its waker.
Pend(p, i) == [p EXCEPT !.tasks[i].state = "pending", !.tasks[i].polls = 1]

\* One poll of task i.
Poll(p, i) ==
    LET task == p.tasks[i]
    IN  CASE task.fut.kind = "yield" /\ task.polls = 0 -> Yield(p, i)
          [] task.fut.kind = "pending" /\ task.polls = 0 -> Pend(p, i)
          [] task.fut.kind = "spawn" ->
                Complete(SpawnOnScope(p, [kind |-> "ready", output |-> task.fut.output]), i)
          [] OTHER -> Complete(p, i)

Pool == [results |-> results, cells |-> cells, tasks |-> tasks]

SetPool(p) ==
    /\ results' = p.results
    /\ cells' = p.cells
    /\ tasks' = p.tasks

\* The futures still to be spawned by the "spawn" futures on the scope.
ToSpawn == Cardinality({i \in 1..Len(tasks) :
                           tasks[i].fut.kind = "spawn" /\ tasks[i].state # "finished"})

\* scope_with_executor, lines 116-139: up to the call of f.
scope ==
    /\ scope_pc = "idle"
    /\ scope_pc' = "in_f"
    /\ UNCHANGED <<results, cells, tasks, returned>>
    /\ UNCHANGED builder

\* Scope::spawn_on_scope (lines 246-254), called by f.
spawn_on_scope(f) ==
    /\ scope_pc = "in_f"
    /\ Len(tasks) + ToSpawn + (IF f.kind = "spawn" THEN 2 ELSE 1) <= MaxFutures
    /\ SetPool(SpawnOnScope(Pool, f))
    /\ UNCHANGED <<scope_pc, returned>>
    /\ UNCHANGED builder

\* Scope::spawn (lines 226-228).
spawn(f) == spawn_on_scope(f)

\* Scope::spawn_on_external (lines 237-239).
spawn_on_external(f) == spawn_on_scope(f)

\* f returns (line 139).
f_return ==
    /\ scope_pc = "in_f"
    /\ scope_pc' = "ticking"
    /\ UNCHANGED <<results, cells, tasks, returned>>
    /\ UNCHANGED builder

\* Line 142: try_tick() finds a scheduled task, polls it once and says true.
\* The executor's queue order is left open: any scheduled task may be next.
try_tick(i) ==
    /\ scope_pc = "ticking"
    /\ tasks[i].state = "scheduled"
    /\ SetPool(Poll(Pool, i))
    /\ UNCHANGED <<scope_pc, returned>>
    /\ UNCHANGED builder

\* Something outside the executor wakes a task that returned Pending.
wake(i) ==
    /\ scope_pc \in {"in_f", "ticking"}
    /\ tasks[i].state = "pending"
    /\ tasks' = [tasks EXCEPT ![i].state = "scheduled"]
    /\ UNCHANGED <<scope_pc, results, cells, returned>>
    /\ UNCHANGED builder

\* Lines 142-148: try_tick() finds no scheduled task and says false; the loop
\* ends and every cell is taken and unwrapped, which panics on a None.
scope_return ==
    /\ scope_pc = "ticking"
    /\ \A i \in 1..Len(tasks) : tasks[i].state # "scheduled"
    /\ IF \A k \in 1..Len(results) : cells[results[k]] # None
          THEN /\ returned' = [k \in 1..Len(results) |-> cells[results[k]].value]
               /\ cells' = [c \in 1..Len(cells) |-> None]
               /\ scope_pc' = "returned"
          ELSE /\ scope_pc' = "panicked"
               /\ UNCHANGED <<cells, returned>>
    /\ UNCHANGED <<results, tasks>>
    /\ UNCHANGED builder

\* The caller is done with the returned vector (or caught the panic): the
\* executor, its tasks and the results are dropped.
scope_drop ==
    /\ scope_pc \in {"returned", "panicked"}
    /\ scope_pc' = "idle"
    /\ results' = <<>>
    /\ cells' = <<>>
    /\ tasks' = <<>>
    /\ returned' = <<>>
    /\ UNCHANGED builder

InitScope ==
    /\ settings \in SettingsPresets
    /\ textures_to_place = <<>>
    /\ pc = "idle"
    /\ max_size = UVec2(0, 0)
    /\ current_width = 0
    /\ current_height = 0
    /\ unified_format = "None"
    /\ rect_placements = None
    /\ atlas_texture = DefaultImage
    /\ attempts = <<>>
    /\ result = NoResult
    /\ called = "none"
    /\ last_build = None
    /\ scope_pc = "idle"
    /\ results = <<>>
    /\ cells = <<>>
    /\ tasks = <<>>
    /\ returned = <<>>

NextScope ==
    \/ scope
    \/ \E f \in Futures : spawn(f)
    \/ \E f \in Futures : spawn_on_external(f)
    \/ \E f \in Futures : spawn_on_scope(f)
    \/ f_return
    \/ \E i \in 1..Len(tasks) : try_tick(i)
    \/ \E i \in 1..Len(tasks) : wake(i)
    \/ scope_return
    \/ scope_drop

SpecScope == InitScope /\ [][NextScope]_vars

\* ---- what the claims speak about ----------------------------------------
Returned == pc = "done"

Succeeded == pc = "done" /\ result.kind = "Ok"

\* build() got past format unification.
FormatUnified == pc \in {"loop", "after_loop"} \/ (pc = "done" /\ result.kind # "WrongFormat")

NumTextures == Len(textures_to_place)

TextureAt(k) == textures_to_place[k].texture

LayoutRect(k) == result.layout.textures[k]

\* The byte of the returned atlas at pixel (x, y), byte o of the pixel.
AtlasByte(x, y, o) ==
    atlas_texture.data[(y * atlas_texture.width + x) * pixel_size(atlas_texture.format) + o + 1]

\* The byte of registered image k at pixel (i, j), byte o of the pixel.
TextureByte(k, i, j, o) ==
    TextureAt(k).data[(j * TextureAt(k).width + i) * pixel_size(TextureAt(k).format) + o + 1]

InAtlas(x, y) == x < atlas_texture.width /\ y < atlas_texture.height

\* The rectangles from number k on can be placed in the bin, clear of the
\* locations already taken.
RECURSIVE CanPlace(_, _, _, _)
CanPlace(rects, bin, k, taken) ==
    \/ k > Len(rects)
    \/ \E location \in PackedLocations(rects[k], bin.x, bin.y) :
          /\ \A j \in 1..Len(taken) : Disjoint(taken[j], location)
          /\ CanPlace(rects, bin, k + 1, Append(taken, location))

\* The inflated rectangles can all be placed in a bin of the given size.
Packable(bin) == CanPlace(RectsToPlace(textures_to_place, settings.padding), bin, 1, <<>>)

LessEq(a, b) == a.x <= b.x /\ a.y <= b.y

\* C1: whenever build returns Ok under settings with min_size <= max_size,
\* the atlas size s satisfies min_size <= s <= max_size on both axes.
C1_SizeWithinMinMax ==
    (Succeeded /\ LessEq(settings.min_size, settings.max_size))
        => /\ LessEq(settings.min_size, result.layout.size)
           /\ LessEq(result.layout.size, settings.max_size)

\* C2: after a successful build, every registered image whose format is the
\* unified format has its pixels in the atlas at its layout rectangle: atlas
\* pixel (rect.min.x + i, rect.min.y + j) is source pixel (i, j).
C2_PixelsAtLayoutRect ==
    Succeeded =>
        \A k \in 1..NumTextures :
            TextureAt(k).format = unified_format =>
                \A i \in 0..(TextureAt(k).width - 1), j \in 0..(TextureAt(k).height - 1),
                   o \in 0..(pixel_size(unified_format) - 1) :
                    /\ InAtlas(LayoutRect(k).min.x + i, LayoutRect(k).min.y + j)
                    /\ AtlasByte(LayoutRect(k).min.x + i, LayoutRect(k).min.y + j, o)
                         = TextureByte(k, i, j, o)

\* C3: after a successful build every layout rectangle lies between the
\* margins: margin <= r.min and r.max <= size - margin on both axes.
C3_RectsInsideMargins ==
    Succeeded =>
        \A k \in 1..NumTextures :
            /\ settings.margin.x <= LayoutRect(k).min.x
            /\ LayoutRect(k).max.x + settings.margin.x <= result.layout.size.x
            /\ settings.margin.y <= LayoutRect(k).min.y
            /\ LayoutRect(k).max.y + settings.margin.y <= result.layout.size.y

\* The length of the doubling schedule 1, 2, 4, ... up to m.
RECURSIVE Doublings(_, _)
Doublings(c, m) == IF c >= m THEN 0 ELSE 1 + Doublings(2 * c, m)

\* C4: the size search ends after a number of packing attempts bounded by the
\* doubling schedule from min_size to the largest candidate size.
C4_AttemptsBoundedByDoubling ==
    Len(attempts) <= 1 + Doublings(1, Max(max_size.x, max_size.y))

\* C5 as stated: if the inflated rectangles cannot be packed in a bin of any
\* size up to max_size (and format unification passed), build returns
\* NotEnoughSpace.
C5_UnpackableInMaxSizeFails ==
    (Returned /\ FormatUnified /\ ~Packable(settings.max_size))
        => result.kind = "NotEnoughSpace"

\* The largest bin the size search may try: max_size + padding - 2 * margin
\* on each axis, not below 0.
LargestBin ==
    UVec2(IF settings.max_size.x + settings.padding.x >= 2 * settings.margin.x
             THEN settings.max_size.x + settings.padding.x - 2 * settings.margin.x ELSE 0,
          IF settings.max_size.y + settings.padding.y >= 2 * settings.margin.y
             THEN settings.max_size.y + settings.padding.y - 2 * settings.margin.y ELSE 0)

\* C5 amended: if the inflated rectangles cannot be packed in the largest
\* candidate bin (max_size + padding - 2 * margin), build never finds a
\* placement: once format unification passed, it can only return
\* NotEnoughSpace, and no atlas buffer was allocated.
C5_UnpackableInLargestBinFails ==
    (FormatUnified /\ ~Packable(LargestBin))
        => /\ rect_placements = None
           /\ atlas_texture = DefaultImage
           /\ Returned => result.kind = "NotEnoughSpace"

\* C5 witness: build returned NotEnoughSpace for images that do not fit the
\* largest bin, after at least one packing attempt.
C5_Witness ==
    /\ Returned /\ result.kind = "NotEnoughSpace"
    /\ NumTextures = 2 /\ ~Packable(LargestBin)
    /\ Len(attempts) >= 2

\* C6: if min_size exceeds max_size on some axis, build (once format
\* unification passed) returns NotEnoughSpace.
C6_MinAboveMaxFails ==
    (Returned /\ FormatUnified
        /\ (settings.min_size.x > settings.max_size.x \/ settings.min_size.y > settings.max_size.y))
        => result.kind = "NotEnoughSpace"

\* No forced format, and the registered images do not share one format.
FormatsMismatch ==
    \/ NumTextures = 0
    \/ \E k \in 1..NumTextures : TextureAt(k).format # TextureAt(1).format

\* C7: with convert_format unset, build returns WrongFormat exactly when no
\* image is registered or some image's format differs from the first image's;
\* otherwise the unified format is the first image's format.
C7_WrongFormatIffMismatch ==
    settings.convert_format = "None" =>
        /\ Returned => (result.kind = "WrongFormat" <=> FormatsMismatch)
        /\ FormatsMismatch => pc \in {"idle", "done"}
        /\ (pc # "idle" /\ ~FormatsMismatch) => unified_format = TextureAt(1).format

\* C7 witness: WrongFormat returned for two images of different formats.
C7_Witness ==
    /\ settings.convert_format = "None" /\ Returned /\ result.kind = "WrongFormat"
    /\ NumTextures = 2 /\ TextureAt(2).format # TextureAt(1).format

\* C8: with convert_format set, build never returns WrongFormat, and the atlas
\* of a successful build has the format convert_format.
C8_ForcedFormatWins ==
    settings.convert_format # "None" =>
        /\ result.kind # "WrongFormat"
        /\ Succeeded => atlas_texture.format = settings.convert_format

\* C8 witness: a successful build with a forced format over two images of
\* different formats, neither of them the forced one.
C8_Witness ==
    /\ Succeeded /\ settings.convert_format = "Rg8Unorm"
    /\ NumTextures = 2 /\ TextureAt(1).format # TextureAt(2).format

\* C9: after a successful build over n add_texture calls the layout has n
\* rectangles, and rectangle k is the destination of image k: it starts at
\* margin + the position the packer gave to rectangle id k, whose size is
\* image k's size inflated by the padding.
C9_LayoutInInsertionOrder ==
    Succeeded =>
        /\ Len(result.layout.textures) = NumTextures
        /\ \A k \in 1..NumTextures :
              /\ LayoutRect(k).min.x = settings.margin.x + rect_placements.value[k].x
              /\ LayoutRect(k).min.y = settings.margin.y + rect_placements.value[k].y
              /\ rect_placements.value[k].width = TextureAt(k).width + settings.padding.x
              /\ rect_placements.value[k].height = TextureAt(k).height + settings.padding.y

\* C9 witness: two images of different sizes, the second one placed by the
\* packer nearer to the origin than the first.
C9_Witness ==
    /\ Succeeded /\ NumTextures = 2
    /\ TextureAt(1).width # TextureAt(2).width
    /\ rect_placements.value[2].x = 0 /\ rect_placements.value[2].y = 0

\* C10: after a successful build the size of every layout rectangle is the
\* size of its source image, whatever the padding.
C10_RectSizeIsImageSize ==
    Succeeded =>
        \A k \in 1..NumTextures :
            /\ LayoutRect(k).max.x - LayoutRect(k).min.x = TextureAt(k).width
            /\ LayoutRect(k).max.y - LayoutRect(k).min.y = TextureAt(k).height

\* C10 witness: a successful build of two images with padding on both axes.
C10_Witness ==
    /\ Succeeded /\ NumTextures = 2
    /\ settings.padding.x > 0 /\ settings.padding.y > 0

\* C11: after a successful build any two distinct layout rectangles are
\* separated by the padding on some axis: a.max + padding <= b.min or
\* b.max + padding <= a.min, in x or in y.
C11_RectsSeparatedByPadding ==
    Succeeded =>
        \A a \in 1..NumTextures, b \in 1..NumTextures :
            a # b =>
                \/ LayoutRect(a).max.x + settings.padding.x <= LayoutRect(b).min.x
                \/ LayoutRect(b).max.x + settings.padding.x <= LayoutRect(a).min.x
                \/ LayoutRect(a).max.y + settings.padding.y <= LayoutRect(b).min.y
                \/ LayoutRect(b).max.y + settings.padding.y <= LayoutRect(a).min.y

\* C11 witness: a successful build with padding on both axes whose two
\* rectangles are exactly the padding apart in x and share rows.
C11_Witness ==
    /\ Succeeded /\ NumTextures = 2
    /\ settings.padding.x > 0 /\ settings.padding.y > 0
    /\ LayoutRect(1).max.x + settings.padding.x = LayoutRect(2).min.x
    /\ LayoutRect(1).min.y = LayoutRect(2).min.y

\* The identifiers passed to add_texture.
RegisteredIds == {textures_to_place[k].image_id : k \in 1..NumTextures} \ {"None"}

\* The 0-based index of the last image registered with the identifier.
IndexOf(id) ==
    (CHOOSE k \in 1..NumTextures :
        /\ textures_to_place[k].image_id = id
        /\ \A j \in (k + 1)..NumTextures : textures_to_place[j].image_id # id) - 1

\* C12: after a successful build the sources map has an entry exactly for the
\* identifiers passed to add_texture (None adds no entry), and each
\* identifier maps to the layout index of the image registered with it (the
\* last one, when an identifier was passed twice).
C12_SourcesMapRegisteredIds ==
    Succeeded =>
        /\ DOMAIN result.sources.texture_ids = RegisteredIds
        /\ \A id \in RegisteredIds : result.sources.texture_ids[id] = IndexOf(id)

\* C12 witness: a successful build of an image without identifier followed by
\* one with an identifier, which maps to index 1.
C12_Witness ==
    /\ Succeeded /\ NumTextures = 2
    /\ textures_to_place[1].image_id = "None"
    /\ textures_to_place[2].image_id # "None"
    /\ result.sources.texture_ids[textures_to_place[2].image_id] = 1

\* The bin of the last packing attempt.
LastAttempt == attempts[Len(attempts)]

\* C13: when packing succeeds at bin size c, the atlas size is, on each axis
\* with that axis' padding and margin, max(c - padding, min_size) + 2 * margin
\* with at least one image, and c + 2 * margin with none.
C13_FinalSizePerAxis ==
    (Succeeded /\ Len(attempts) < MaxAttempts) =>
        /\ result.layout.size.x =
              (IF NumTextures > 0
                  THEN Max(LastAttempt.x - settings.padding.x, settings.min_size.x)
                  ELSE LastAttempt.x)
              + 2 * settings.margin.x
        /\ result.layout.size.y =
              (IF NumTextures > 0
                  THEN Max(LastAttempt.y - settings.padding.y, settings.min_size.y)
                  ELSE LastAttempt.y)
              + 2 * settings.margin.y

\* C14: with a forced format, at most one image, which fits in min_size, and
\* min_size + 2 * margin <= max_size, build succeeds with the atlas size
\* min_size + 2 * margin and the image at (margin, margin + image size),
\* whatever the padding and max_size.
C14_TrivialAtlasIgnoresPadding ==
    (/\ Returned
     /\ settings.convert_format # "None"
     /\ NumTextures <= 1
     /\ \A k \in 1..NumTextures :
            /\ TextureAt(k).width <= settings.min_size.x
            /\ TextureAt(k).height <= settings.min_size.y
     /\ settings.min_size.x + 2 * settings.margin.x <= settings.max_size.x
     /\ settings.min_size.y + 2 * settings.margin.y <= settings.max_size.y)
        => /\ result.kind = "Ok"
           /\ result.layout.size = UVec2(settings.min_size.x + 2 * settings.margin.x,
                                         settings.min_size.y + 2 * settings.margin.y)
           /\ \A k \in 1..NumTextures :
                 LayoutRect(k) =
                    [min |-> settings.margin,
                     max |-> UVec2(settings.margin.x + TextureAt(k).width,
                                   settings.margin.y + TextureAt(k).height)]

\* The previous call's outcome, kept by the caller.
Previous == last_build.value

\* This call returned what the previous one did.
SameOutcome ==
    /\ result = Previous.result
    /\ atlas_texture = Previous.atlas_texture

C17_FinishIsBuild ==
    (Returned /\ last_build # None /\ called # Previous.called)
        => /\ SameOutcome
           /\ settings = Previous.settings
           /\ textures_to_place = Previous.textures_to_place

\* C17 witness: finish() has returned Ok for two images after build() did.
C17_Witness ==
    /\ Returned /\ last_build # None /\ called = "finish" /\ Previous.called = "build"
    /\ result.kind = "Ok" /\ NumTextures = 2

\* scope() is over: it returned, or it panicked.
ScopeOver == scope_pc \in {"returned", "panicked"}

\* C18: scope returns only after every future spawned on it has run to
\* completion: it never returns, or reads a result cell, while a spawned
\* future is unfinished.
C18_ScopeWaitsForAllFutures ==
    ScopeOver => \A i \in 1..Len(tasks) : tasks[i].state = "finished"

\* C19: scope returns one result per spawned future, and element i of the
\* returned vector is the output of future i in spawn order, in whatever
\* order the executor ran and finished the futures.
C19_ResultsInSpawnOrder ==
    scope_pc = "returned" =>
        /\ Len(returned) = Len(tasks)
        /\ \A i \in 1..Len(tasks) : returned[i] = tasks[i].fut.output

\* C19 witness: scope returned three results, one of a future spawned by
\* another future; the first future spawned returned Pending, was woken from
\* outside and finished last, and its output differs from the second's.
C19_Witness ==
    /\ scope_pc = "returned" /\ Len(tasks) = MaxFutures
    /\ tasks[1].fut.kind = "pending" /\ tasks[1].order = MaxFutures
    /\ tasks[2].fut.kind = "spawn"
    /\ tasks[1].fut.output # tasks[2].fut.output

\* Image k is neither in the unified format nor convertible to it.
Unconvertible(k) ==
    /\ TextureAt(k).format # unified_format
    /\ ~ConvertSupported(TextureAt(k).format, unified_format)

\* The byte of the returned atlas at pixel (i, j), byte o, of the place where
\* the blit puts image k.
BlitByte(k, i, j, o) ==
    AtlasByte(rect_placements.value[k].x + i, rect_placements.value[k].y + j, o)

C20_WrongFormatBeforePacking ==
    (settings.convert_format = "None" /\ FormatsMismatch /\ pc # "idle")
        => /\ Returned /\ result.kind = "WrongFormat"
           /\ attempts = <<>>
           /\ rect_placements = None

\* C20 witness: WrongFormat returned for two images of different formats that
\* do not fit the largest bin.
C20_Witness ==
    /\ Returned /\ result.kind = "WrongFormat" /\ attempts = <<>>
    /\ settings.convert_format = "None"
    /\ NumTextures = 2 /\ TextureAt(1).format # TextureAt(2).format
    /\ ~Packable(LargestBin)


\* The size search of this build is over.
SearchOver == pc = "after_loop" \/ (pc = "done" /\ result.kind # "WrongFormat")

\* The bin that follows a failed attempt at bin c: both axes doubled, each
\* clamped to the largest candidate bin.
DoubledBin(c) == UVec2(Min(2 * c.x, LargestBin.x), Min(2 * c.y, LargestBin.y))

\* The search is not abandoned without an attempt; NotEnoughSpace follows one
\* failed attempt at the largest bin, the last one; and every failed attempt
\* is followed by an attempt at the doubled, clamped bin.
SearchReachesLargestBin ==
    /\ SearchOver => attempts # <<>>
    /\ (Returned /\ result.kind = "NotEnoughSpace" /\ Len(attempts) < MaxAttempts)
          => /\ attempts # <<>>
             /\ LastAttempt = LargestBin
             /\ rect_placements = None
             /\ \A k \in 1..(Len(attempts) - 1) : attempts[k] # LargestBin
    /\ \A k \in 1..(Len(attempts) - 1) : attempts[k + 1] = DoubledBin(attempts[k])
    /\ (pc = "loop" /\ attempts # <<>> /\ Len(attempts) < MaxAttempts)
          => UVec2(current_width, current_height) = DoubledBin(LastAttempt)

\* C21 as stated: for every configuration with min_size <= max_size the
\* search is never abandoned without a packing attempt, NotEnoughSpace is
\* returned only after exactly one attempt at the largest candidate bin, the
\* final one, failed, and every earlier failed attempt at c is followed by an
\* attempt at (min(2*c.x, M.x), min(2*c.y, M.y)).
C21_SearchFromMinBelowMaxSize ==
    LessEq(settings.min_size, settings.max_size) => SearchReachesLargestBin

\* C21 amended: the same for every configuration with min_size <= M, the
\* largest candidate bin max_size + padding - 2 * margin.
C21_SearchFromMinBelowLargestBin ==
    LessEq(settings.min_size, LargestBin) => SearchReachesLargestBin

\* C21 witness: NotEnoughSpace returned after a failed attempt at min_size
\* and a failed attempt at the largest bin.
C21_Witness ==
    /\ Returned /\ result.kind = "NotEnoughSpace"
    /\ LessEq(settings.min_size, LargestBin)
    /\ Len(attempts) >= 2 /\ LastAttempt = LargestBin
    /\ attempts[1] = settings.min_size


\* Atlas pixel (x, y) lies in the layout rectangle of image k.
InLayoutRect(k, x, y) ==
    /\ LayoutRect(k).min.x <= x /\ x < LayoutRect(k).max.x
    /\ LayoutRect(k).min.y <= y /\ y < LayoutRect(k).max.y

\* C22: after a successful build the atlas buffer has the dimensions of
\* layout.size and width * height * bytes-per-pixel bytes, and every atlas
\* pixel outside all layout rectangles is zero.
C22_ZeroOutsideLayoutRects ==
    Succeeded =>
        /\ result.layout.size = UVec2(atlas_texture.width, atlas_texture.height)
        /\ atlas_texture.format = unified_format
        /\ Len(atlas_texture.data)
              = atlas_texture.width * atlas_texture.height * pixel_size(unified_format)
        /\ \A x \in 0..(atlas_texture.width - 1), y \in 0..(atlas_texture.height - 1) :
              (\A k \in 1..NumTextures : ~InLayoutRect(k, x, y))
                 => \A o \in 0..(pixel_size(unified_format) - 1) : AtlasByte(x, y, o) = ZeroByte

\* A step of build(): build() is running before the step or after it.
BuildStep == pc # "idle" \/ pc' # "idle"

\* The registered images grew by one entry with the given identifier, the
\* earlier entries kept.
Appended(image_id) ==
    /\ Len(textures_to_place') = Len(textures_to_place) + 1
    /\ SubSeq(textures_to_place', 1, Len(textures_to_place)) = textures_to_place
    /\ textures_to_place'[Len(textures_to_place')].image_id = image_id

====
